---- MODULE Spec2Model ----
(***************************************************************************)
(* A model of utile_cli (src/src/cli.rs): the Layer / Layer2D data model,  *)
(* the LayerArrangement stack with its relative addressing, the render     *)
(* engine and cursor primitives over a pancurses window, and the           *)
(* interactive widgets ask, mask, yesno and choices.                       *)
(*                                                                         *)
(* Strings are sequences of one-character strings.  All characters of the  *)
(* model are ASCII, so String::len() (a byte count) is Len.                *)
(***************************************************************************)
EXTENDS Integers, Sequences, FiniteSets, TLC

VARIABLES
  win,              \* the pancurses window: win[y][x] is the character of cell (x, y)
  cur,              \* the window's cursor <<x, y>>
  layer_stack,      \* Terminal.layers.layer_stack
  overflow_checks,  \* the build: TRUE when integer overflow panics (debug profile)
  pc,               \* "idle", the name of the widget waiting for a key, "returned", "panicked"
  call,             \* the operation called last, with its arguments
  input,            \* the driver events getch has delivered so far
  loc,              \* the locals of the running operation / the value under test
  result,           \* what the last operation returned
  held              \* the content lengths a Layer has held since creation or the last shrink

vars == <<win, cur, layer_stack, overflow_checks, pc, call, input, loc, result, held>>

(***************************************************************************)
(* Bounds of the model.                                                    *)
(***************************************************************************)
Cols == 6
Rows == 4
MaxLen == 2
MaxKeys == 4
MaxStack == 3
MaxRel == 6
MaxN == 6
MaxDim == 3

\* The strings over alphabet A of length at most n.
StringsUpTo(A, n) == UNION {[1..k -> A] : k \in 0..n}

TypedChars == {"a", "b"}

NoValue == [none |-> TRUE]
Panic(msg) == [panic |-> msg]
IsPanic(v) == "panic" \in DOMAIN v

(***************************************************************************)
(* impl Layer                                                              *)
(***************************************************************************)
Layer_new(posx, posy) ==
  [posx |-> posx, posy |-> posy, inner_content |-> <<>>, content |-> <<>>, length |-> 0]

get_content(self) == self.content

set_content_keeps_no_mark(self, c) ==
  [self EXCEPT !.content = c, !.length = Len(c)]

set_content(self, c) ==
  [self EXCEPT !.content = c,
               !.length = IF Len(c) > self.length THEN Len(c) ELSE self.length]

inner_to_outer(self) == set_content(self, self.inner_content)

shrink(self) == [self EXCEPT !.length = Len(self.content)]

(***************************************************************************)
(* The pancurses window (the terminal driver).  A terminal state t is      *)
(* [win, cur]; the window has Rows lines of Cols cells, does not scroll    *)
(* (scrollok is never set) and echoes typed characters (noecho is never    *)
(* called).                                                                *)
(***************************************************************************)
Blank == " "
LF == "\n"
CR == "\r"
BS == "0x08"

EmptyWin == [yy \in 0..(Rows - 1) |-> [xx \in 0..(Cols - 1) |-> Blank]]

Term(w, c) == [win |-> w, cur |-> c, err |-> FALSE]

\* win.get_cur_x() / win.get_cur_y()
raw_posx(t) == t.cur[1]
raw_posy(t) == t.cur[2]
raw_posxy(t) == t.cur

\* win.mv(y, x): the move fails, leaving the cursor, when the cell is outside the window
raw_move(t, x, y) ==
  IF x >= 0 /\ x < Cols /\ y >= 0 /\ y < Rows
    THEN [t EXCEPT !.cur = <<x, y>>]
    ELSE t

raw_move_offset(t, xoffs, yoffs) == raw_move(t, raw_posx(t) + xoffs, raw_posy(t) + yoffs)
raw_move_first(t) == raw_move(t, 0, raw_posy(t))
raw_move_prev(t) == raw_move_offset(t, -1, 0)
raw_move_next(t) == raw_move_offset(t, 1, 0)

\* win.delch(): the rest of the line moves one cell left, a blank enters at the end
raw_delete(t) ==
  LET x == t.cur[1]
      y == t.cur[2]
  IN [t EXCEPT !.win[y] = [xx \in 0..(Cols - 1) |->
                             IF xx < x THEN t.win[y][xx]
                             ELSE IF xx < Cols - 1 THEN t.win[y][xx + 1]
                             ELSE Blank]]

raw_delete_prev(t) == raw_delete(raw_move_prev(t))

\* waddch: one character written at the cursor.  err is set when the character
\* could not advance the cursor (bottom of a window that does not scroll).
waddch(t, ch) ==
  LET x == t.cur[1]
      y == t.cur[2]
  IN CASE ch = LF ->
            LET cleared == [t EXCEPT !.win[y] = [xx \in 0..(Cols - 1) |->
                                       IF xx < x THEN t.win[y][xx] ELSE Blank]]
            IN IF y + 1 > Rows - 1
                 THEN [cleared EXCEPT !.err = TRUE]
                 ELSE [cleared EXCEPT !.cur = <<0, y + 1>>]
       [] ch = CR -> [t EXCEPT !.cur = <<0, y>>]
       [] ch = BS -> IF x = 0 THEN t ELSE [t EXCEPT !.cur = <<x - 1, y>>]
       [] OTHER ->
            LET written == [t EXCEPT !.win[y][x] = ch]
            IN IF x < Cols - 1 THEN [written EXCEPT !.cur = <<x + 1, y>>]
               ELSE IF y < Rows - 1 THEN [written EXCEPT !.cur = <<0, y + 1>>]
               ELSE [written EXCEPT !.err = TRUE]

\* win.printw(s): the characters in order, stopping at the first that fails
RECURSIVE waddstr(_, _)
waddstr(t, str) ==
  IF str = <<>> THEN t
  ELSE LET t1 == waddch(t, Head(str))
       IN IF t1.err THEN t1 ELSE waddstr(t1, Tail(str))

printw(t, str) == [waddstr([t EXCEPT !.err = FALSE], str) EXCEPT !.err = FALSE]

raw_out(t, str) == printw(t, str)

raw_out_static(t, str) ==
  LET here == raw_posxy(t)
  IN raw_move(raw_out(t, str), here[1], here[2])

raw_br(t) == printw(t, <<LF>>)
raw_outln(t, str) == raw_br(printw(t, str))

Repeat(ch, n) == [i \in 1..n |-> ch]

(***************************************************************************)
(* The render engine.                                                      *)
(***************************************************************************)
draw_layer_without_clear(t, layer) ==
  LET t1 == raw_move(t, layer.posx, layer.posy)
  IN raw_out(t1, get_content(layer))

draw_layer(t, layer) ==
  LET t1 == raw_move(t, layer.posx, layer.posy)
      t2 == raw_out_static(t1, Repeat(Blank, layer.length))
  IN raw_out(t2, get_content(layer))

draw_layer_static(t, layer) ==
  LET here == raw_posxy(t)
  IN raw_move(draw_layer(t, layer), here[1], here[2])

RECURSIVE draw_cells(_, _)
draw_cells(t, cells) ==
  IF cells = <<>> THEN t
  ELSE draw_cells(draw_layer_static(t, Head(cells)), Tail(cells))

draw_layer2d(t, layer) ==
  draw_cells(raw_move(t, layer.posx, layer.posy), layer.layers)

draw_layer2d_static(t, layer) ==
  LET here == raw_posxy(t)
  IN raw_move(draw_layer(t, layer), here[1], here[2])

RECURSIVE draw_stack_back_to_front(_, _)
draw_stack_back_to_front(t, stack) ==
  IF stack = <<>> THEN t
  ELSE draw_layer2d(draw_stack_back_to_front(t, Tail(stack)), Head(stack))

RECURSIVE draw_stack(_, _)
draw_stack(t, stack) ==
  IF stack = <<>> THEN t
  ELSE draw_stack(draw_layer2d(t, Head(stack)), Tail(stack))

refresh(t, stack) ==
  LET here == raw_posxy(t)
  IN raw_move(draw_stack(t, stack), here[1], here[2])

out(t, stack, str) == refresh(printw(t, str), stack)

out_static(t, stack, str) ==
  LET here == raw_posxy(t)
  IN raw_move(out(t, stack, str), here[1], here[2])

outbr(t, stack) == refresh(printw(t, <<LF>>), stack)
outln(t, stack, str) == outbr(printw(t, str), stack)

(***************************************************************************)
(* Key input.  A driver event is Some(Character(c)), Some(Special(name))   *)
(* or None; a Key is Alpha(c) or a named key.                              *)
(***************************************************************************)
Some(v) == [some |-> v]
IsSome(o) == "some" \in DOMAIN o

Character(c) == [character |-> c]
Special(name) == [special |-> name]
IsCharacter(i) == "character" \in DOMAIN i

Key(name) == [key |-> name]
Alpha(c) == [key |-> "Alpha", c |-> c]
IsAlpha(k) == k.key = "Alpha"

FunctionKeys == {"F1", "F2", "F3", "F4", "F5", "F6", "F7", "F8", "F9", "F10", "F11", "F12"}

get_char_none_as_key(ev) ==
  IF ~IsSome(ev) THEN Some(Key("F1"))
  ELSE LET i == ev.some
       IN IF IsCharacter(i)
            THEN IF i.character \in {LF, CR} THEN Some(Key("Enter"))
                 ELSE IF i.character = BS THEN Some(Key("Backspace"))
                 ELSE Some(Alpha(i.character))
          ELSE IF i.special = "KeyUp" THEN Some(Key("ArrowUp"))
          ELSE IF i.special = "KeyDown" THEN Some(Key("ArrowDown"))
          ELSE IF i.special = "KeyLeft" THEN Some(Key("ArrowLeft"))
          ELSE IF i.special = "KeyRight" THEN Some(Key("ArrowRight"))
          ELSE IF i.special \in {"Key" \o f : f \in FunctionKeys}
            THEN Some(Key(CHOOSE f \in FunctionKeys : i.special = "Key" \o f))
          ELSE NoValue

\* the match of get_char on what win.getch() returned
get_char(ev) ==
  IF ~IsSome(ev) THEN NoValue
  ELSE LET i == ev.some
       IN IF IsCharacter(i)
            THEN IF i.character \in {LF, CR} THEN Some(Key("Enter"))
                 ELSE IF i.character = BS THEN Some(Key("Backspace"))
                 ELSE Some(Alpha(i.character))
          ELSE IF i.special = "KeyUp" THEN Some(Key("ArrowUp"))
          ELSE IF i.special = "KeyDown" THEN Some(Key("ArrowDown"))
          ELSE IF i.special = "KeyLeft" THEN Some(Key("ArrowLeft"))
          ELSE IF i.special = "KeyRight" THEN Some(Key("ArrowRight"))
          ELSE IF i.special \in {"Key" \o f : f \in FunctionKeys}
            THEN Some(Key(CHOOSE f \in FunctionKeys : i.special = "Key" \o f))
          ELSE NoValue

\* win.getch() on the window: a character event is echoed at the cursor
getch(t, ev) ==
  IF IsSome(ev) /\ IsCharacter(ev.some)
    THEN [waddch([t EXCEPT !.err = FALSE], ev.some.character) EXCEPT !.err = FALSE]
    ELSE t

get_char_hidden_no_restore(t, ev) ==
  LET t1 == getch(t, ev)
      ret == get_char(ev)
      t2 == IF IsSome(ret) /\ IsAlpha(ret.some) THEN raw_delete_prev(t1) ELSE t1
  IN [t |-> t2, ret |-> ret]

\* get_char_hidden: [t |-> the terminal afterwards, ret |-> the Option<Key>]
get_char_hidden(t, ev) ==
  LET here == raw_posxy(t)
      t1 == getch(t, ev)
      ret == get_char(ev)
      t2 == IF IsSome(ret) /\ IsAlpha(ret.some) THEN raw_delete_prev(t1) ELSE t1
  IN [t |-> raw_move(t2, here[1], here[2]), ret |-> ret]

(***************************************************************************)
(* impl Layer2D                                                            *)
(***************************************************************************)
populate_rows_by_height(self, populator) ==
  LET cc == Len(get_content(populator))
  IN [self EXCEPT
        !.char_count = cc,
        !.layers = [k \in 1..(self.length * self.height) |->
                      [populator EXCEPT !.posx = ((k - 1) % self.length) * cc,
                                        !.posy = (k - 1) \div self.height]]]

populate(self, populator) ==
  LET cc == Len(get_content(populator))
  IN [self EXCEPT
        !.char_count = cc,
        !.layers = [k \in 1..(self.length * self.height) |->
                      [populator EXCEPT !.posx = ((k - 1) % self.length) * cc,
                                        !.posy = (k - 1) \div self.length]]]

Layer2D_new(posx, posy, length, height, populator) ==
  populate([posx |-> posx, posy |-> posy, length |-> length, height |-> height,
            layers |-> <<>>, char_count |-> 0, stack_loc |-> 0], populator)

\* index / get: the reference &self.layers[x + y * self.length] is the slot it points
\* into, with the Layer found there; a slot outside the Vec panics
index(self, x, y) ==
  IF x + y * self.length < Len(self.layers)
    THEN [slot |-> x + y * self.length, layer |-> self.layers[x + y * self.length + 1]]
    ELSE Panic("index out of bounds")

get(self, x, y) == index(self, x, y)

(***************************************************************************)
(* LayerArrangement addressing.  A usize is [carry, value], the number     *)
(* carry * 2^64 + value: a negative i32 v cast to usize is 2^64 + v.       *)
(***************************************************************************)
as_usize(v) == IF v >= 0 THEN [carry |-> 0, value |-> v] ELSE [carry |-> 1, value |-> v]

InBounds(i, len) == i.carry = 0 /\ i.value < len

locate_idx_wraps_into_range(len, l) ==
  IF len = 0 THEN as_usize((len - 1) + l)
  ELSE IF ~(l <= 0) THEN as_usize(l % len)
  ELSE as_usize(((len - 1) + l) % len)

locate_idx_counts_from_len(len, l) ==
  IF ~(l <= 0) THEN as_usize(l)
  ELSE as_usize(len + l)

\* len - 1 on an empty stack overflows: a panic when overflow is checked, and
\* otherwise usize::MAX, which `as i32` makes -1 (so the sum is still len - 1 + l)
locate_idx(len, l) ==
  IF ~(l <= 0) THEN as_usize(l)
  ELSE IF len = 0 /\ overflow_checks THEN Panic("attempt to subtract with overflow")
  ELSE as_usize((len - 1) + l)

(***************************************************************************)
(* Common pieces of the specifications.                                    *)
(***************************************************************************)
Returned(v) == [ret |-> v]

\* Terminal::new(): an empty window, the cursor at the origin, no layers
Terminal_new ==
  /\ win = EmptyWin
  /\ cur = <<0, 0>>
  /\ layer_stack = <<>>
  /\ pc = "idle"
  /\ input = <<>>
  /\ result = NoValue

SetMax(S) == CHOOSE m \in S : \A k \in S : k <= m

Strings == StringsUpTo(TypedChars, MaxLen)

(***************************************************************************)
(* SpecLayer: a Layer driven through its methods and its public field.     *)
(***************************************************************************)
InitLayer ==
  /\ Terminal_new
  /\ overflow_checks \in BOOLEAN
  /\ call = [op |-> "Layer::new"]
  /\ loc = [l |-> Layer_new(0, 0)]
  /\ held = {0}

LayerSetContent ==
  \E c \in Strings :
    /\ loc' = [l |-> set_content(loc.l, c)]
    /\ held' = held \cup {Len(c)}
    /\ call' = [op |-> "set_content"]
    /\ UNCHANGED <<win, cur, layer_stack, overflow_checks, pc, input, result>>

LayerSetInner ==
  \E c \in Strings :
    /\ loc' = [l |-> [loc.l EXCEPT !.inner_content = c]]
    /\ call' = [op |-> "inner_content ="]
    /\ UNCHANGED <<win, cur, layer_stack, overflow_checks, pc, input, result, held>>

LayerInnerToOuter ==
  /\ loc' = [l |-> inner_to_outer(loc.l)]
  /\ held' = held \cup {Len(loc.l.inner_content)}
  /\ call' = [op |-> "inner_to_outer"]
  /\ UNCHANGED <<win, cur, layer_stack, overflow_checks, pc, input, result>>

LayerShrink ==
  /\ loc' = [l |-> shrink(loc.l)]
  /\ held' = {Len(loc.l.content)}
  /\ call' = [op |-> "shrink"]
  /\ UNCHANGED <<win, cur, layer_stack, overflow_checks, pc, input, result>>

LayerGetContent ==
  /\ result' = Returned(get_content(loc.l))
  /\ call' = [op |-> "get_content"]
  /\ UNCHANGED <<win, cur, layer_stack, overflow_checks, pc, input, loc, held>>

NextLayer ==
  \/ LayerSetContent
  \/ LayerSetInner
  \/ LayerInnerToOuter
  \/ LayerShrink
  \/ LayerGetContent

SpecLayer == InitLayer /\ [][NextLayer]_vars

\* C1: after every call on a Layer, length is the largest content length the Layer
\* has held since it was created or last shrunk (the content present at the shrink
\* counted), so length >= len(content); right after shrink, length = len(content).
C1_HighWaterMark ==
  /\ loc.l.length = SetMax(held)
  /\ loc.l.length >= Len(loc.l.content)
  /\ call.op = "shrink" => loc.l.length = Len(loc.l.content)

\* a set_content with shorter content has left the longer footprint allocated
C1_Witness ==
  /\ call.op = "set_content"
  /\ Cardinality(held) >= 2
  /\ loc.l.length > Len(loc.l.content)

(***************************************************************************)
(* The driver events the widgets are fed: typed characters, the control    *)
(* characters get_char maps, arrow keys, one function key, one key         *)
(* get_char has no mapping for (KeyHome), and None.                        *)
(***************************************************************************)
EventsOf(chars, specials) ==
  {Some(Character(c)) : c \in chars \cup {LF, CR, BS}}
    \cup {Some(Special(k)) : k \in specials \cup {"KeyF3", "KeyHome"}}
    \cup {NoValue}

TextEvents == EventsOf(TypedChars, {"KeyLeft"})
YesnoEvents == EventsOf({"a"}, {"KeyLeft", "KeyRight"})
ChoicesEvents == EventsOf({"a"}, {"KeyUp", "KeyDown"})

Prefixes == {<<>>, <<">", " ">>}

\* String::pop(): the string without its last character
pop(str) == SubSeq(str, 1, Len(str) - 1)

\* The keys a widget has seen: the events get_char mapped to Some(key), in order
Keys(evs) ==
  LET mapped == [i \in 1..Len(evs) |-> get_char(evs[i])]
      some == SelectSeq(mapped, IsSome)
  IN [i \in 1..Len(some) |-> some[i].some]

\* The keys before the first Enter
RECURSIVE BeforeEnter(_)
BeforeEnter(keys) ==
  IF keys = <<>> \/ Head(keys) = Key("Enter") THEN <<>>
  ELSE <<Head(keys)>> \o BeforeEnter(Tail(keys))

Term0 == Term(win, cur)

(***************************************************************************)
(* SpecAsk: Terminal::ask                                                  *)
(***************************************************************************)
InitAsk ==
  /\ Terminal_new
  /\ overflow_checks \in BOOLEAN
  /\ call = [op |-> "Terminal::new"]
  /\ loc = NoValue
  /\ held = {}

\* ask, up to its first key read
AskCall ==
  \E prefix \in Prefixes :
    /\ pc = "idle"
    /\ LET t == out(Term0, layer_stack, prefix)
       IN /\ win' = t.win
          /\ cur' = t.cur
          /\ loc' = [r |-> Layer_new(raw_posx(t), raw_posy(t))]
    /\ pc' = "ask"
    /\ call' = [op |-> "ask", prefix |-> prefix]
    /\ UNCHANGED <<layer_stack, overflow_checks, input, result, held>>

\* the Key::Alpha(c) arm
ask_alpha(t, r, c) ==
  LET r1 == set_content(r, Append(get_content(r), c))
  IN [t |-> draw_layer(t, r1), r |-> r1]

ask_backspace_ignored(t, r) == [t |-> raw_move_next(t), r |-> r]

\* the Key::Backspace arm
ask_backspace(t, r) ==
  IF get_content(r) # <<>>
    THEN LET r1 == set_content(r, pop(get_content(r)))
         IN [t |-> draw_layer(t, r1), r |-> r1]
    ELSE [t |-> raw_move_next(t), r |-> r]

\* one turn of ask's loop: a hidden key read and the match on the key
AskKey ==
  \E ev \in TextEvents :
    /\ pc = "ask"
    /\ Len(input) < MaxKeys
    /\ input' = Append(input, ev)
    /\ LET g == get_char_hidden(Term0, ev)
           i == g.ret.some
           step == IF ~IsSome(g.ret) \/ i = Key("Enter") THEN [t |-> g.t, r |-> loc.r]
                   ELSE IF i = Key("Backspace") THEN ask_backspace(g.t, loc.r)
                   ELSE IF IsAlpha(i) THEN ask_alpha(g.t, loc.r, i.c)
                   ELSE [t |-> g.t, r |-> loc.r]
       IN /\ win' = step.t.win
          /\ cur' = step.t.cur
          /\ loc' = [r |-> step.r]
          /\ IF ~IsSome(g.ret) \/ i = Key("Enter")
               THEN pc' = "returned" /\ result' = Returned(get_content(loc.r))
               ELSE pc' = "ask" /\ result' = result
    /\ UNCHANGED <<layer_stack, overflow_checks, call, held>>

NextAsk == AskCall \/ AskKey

SpecAsk == InitAsk /\ [][NextAsk]_vars

\* What the keys type: Alpha(c) appends c, Backspace removes the last character of a
\* non-empty string and leaves the empty string empty, any other key changes nothing
RECURSIVE Typed(_, _)
Typed(str, keys) ==
  IF keys = <<>> THEN str
  ELSE LET k == Head(keys)
       IN Typed(IF IsAlpha(k) THEN Append(str, k.c)
                ELSE IF k = Key("Backspace") /\ str # <<>> THEN SubSeq(str, 1, Len(str) - 1)
                ELSE str,
                Tail(keys))

\* C2: ask returns the string typed by the keys up to the first Enter.
C2_AskReturnsTyped ==
  (call.op = "ask" /\ pc = "returned") =>
    result = Returned(Typed(<<>>, BeforeEnter(Keys(input))))

\* ask has returned after two characters, a Backspace that removed one, and Enter
C2_Witness ==
  /\ call.op = "ask" /\ pc = "returned"
  /\ Keys(input) = <<Alpha("a"), Alpha("b"), Key("Backspace"), Key("Enter")>>
  /\ result = Returned(<<"a">>)

(***************************************************************************)
(* SpecMask: Terminal::mask                                                *)
(***************************************************************************)
MaskChars == {"*", "a"}

InitMask == InitAsk

\* mask, up to its first key read
MaskCall ==
  \E prefix \in Prefixes, mask \in MaskChars :
    /\ pc = "idle"
    /\ LET t == out(Term0, layer_stack, prefix)
       IN /\ win' = t.win
          /\ cur' = t.cur
          /\ loc' = [r |-> Layer_new(raw_posx(t), raw_posy(t)), s |-> <<>>]
    /\ pc' = "mask"
    /\ call' = [op |-> "mask", prefix |-> prefix, mask |-> mask]
    /\ UNCHANGED <<layer_stack, overflow_checks, input, result, held>>

\* the Key::Alpha(c) arm
mask_alpha(t, r, s, c, mask) ==
  LET r1 == set_content(r, Append(get_content(r), mask))
  IN [t |-> draw_layer(t, r1), r |-> r1, s |-> Append(s, c)]

mask_backspace_keeps_hidden(t, r, s) ==
  IF get_content(r) # <<>>
    THEN LET r1 == set_content(r, pop(get_content(r)))
         IN [t |-> draw_layer(t, r1), r |-> r1, s |-> s]
    ELSE [t |-> raw_move_next(t), r |-> r, s |-> s]

\* the Key::Backspace arm
mask_backspace(t, r, s) ==
  IF get_content(r) # <<>>
    THEN LET r1 == set_content(r, pop(get_content(r)))
         IN [t |-> draw_layer(t, r1), r |-> r1, s |-> pop(s)]
    ELSE [t |-> raw_move_next(t), r |-> r, s |-> s]

\* one turn of mask's loop
MaskKey ==
  \E ev \in TextEvents :
    /\ pc = "mask"
    /\ Len(input) < MaxKeys
    /\ input' = Append(input, ev)
    /\ LET g == get_char_hidden(Term0, ev)
           i == g.ret.some
           same == [t |-> g.t, r |-> loc.r, s |-> loc.s]
           step == IF ~IsSome(g.ret) \/ i = Key("Enter") THEN same
                   ELSE IF i = Key("Backspace") THEN mask_backspace(g.t, loc.r, loc.s)
                   ELSE IF IsAlpha(i) THEN mask_alpha(g.t, loc.r, loc.s, i.c, call.mask)
                   ELSE same
       IN /\ win' = step.t.win
          /\ cur' = step.t.cur
          /\ loc' = [r |-> step.r, s |-> step.s]
          /\ IF ~IsSome(g.ret) \/ i = Key("Enter")
               THEN pc' = "returned" /\ result' = Returned(loc.s)
               ELSE pc' = "mask" /\ result' = result
    /\ UNCHANGED <<layer_stack, overflow_checks, call, held>>

NextMask == MaskCall \/ MaskKey

SpecMask == InitMask /\ [][NextMask]_vars

\* C3: while mask runs, the Layer shows one mask character per character of the
\* hidden string, the hidden string is what the keys typed, and mask returns it.
C3_MaskMirrorsHidden ==
  (call.op = "mask" /\ pc \in {"mask", "returned"}) =>
    /\ loc.r.content = Repeat(call.mask, Len(loc.s))
    /\ loc.s = Typed(<<>>, BeforeEnter(Keys(input)))
    /\ pc = "returned" => result = Returned(loc.s)

\* mask has returned "a" after a, b, Backspace, Enter, the Layer showing one "*"
C3_Witness ==
  /\ call.op = "mask" /\ pc = "returned" /\ call.mask = "*"
  /\ Keys(input) = <<Alpha("a"), Alpha("b"), Key("Backspace"), Key("Enter")>>
  /\ result = Returned(<<"a">>)
  /\ loc.r.content = <<"*">>

(***************************************************************************)
(* SpecYesno: Terminal::yesno                                              *)
(***************************************************************************)
\* char::to_uppercase / to_lowercase on the letters of the model
UpperChar(c) == CASE c = "y" -> "Y" [] c = "n" -> "N" [] c = "a" -> "A" [] c = "b" -> "B" [] OTHER -> c
LowerChar(c) == CASE c = "Y" -> "y" [] c = "N" -> "n" [] c = "A" -> "a" [] c = "B" -> "b" [] OTHER -> c
to_uppercase(str) == [i \in 1..Len(str) |-> UpperChar(str[i])]
to_lowercase(str) == [i \in 1..Len(str) |-> LowerChar(str[i])]

RECURSIVE split_pads_missing_piece(_, _)
split_pads_missing_piece(str, sep) ==
  IF \A i \in 1..Len(str) : str[i] # sep THEN <<str, <<>>>>
  ELSE LET k == CHOOSE i \in 1..Len(str) : str[i] = sep /\ \A j \in 1..(i - 1) : str[j] # sep
       IN <<SubSeq(str, 1, k - 1)>> \o split_pads_missing_piece(SubSeq(str, k + 1, Len(str)), sep)

\* str::split(sep), collected: the pieces between the separators (one piece when
\* there is no separator, the empty string included)
RECURSIVE split(_, _)
split(str, sep) ==
  IF \A i \in 1..Len(str) : str[i] # sep THEN <<str>>
  ELSE LET k == CHOOSE i \in 1..Len(str) : str[i] = sep /\ \A j \in 1..(i - 1) : str[j] # sep
       IN <<SubSeq(str, 1, k - 1)>> \o split(SubSeq(str, k + 1, Len(str)), sep)

\* format!("({}/{})", y, n)
yn_format(y, n) == <<"(">> \o y \o <<"/">> \o n \o <<")">>

Suffixes == {<<"y", "/", "n">>, <<"Y", "/", "N">>, <<"a", "/", "b", "/", "n">>, <<"y", "n">>, <<>>}

InitYesno == InitAsk

\* yesno, up to its first key read
YesnoCall ==
  \E suffix \in Suffixes, default \in BOOLEAN :
    /\ pc = "idle"
    /\ call' = [op |-> "yesno", suffix |-> suffix, default |-> default]
    /\ LET yn == split(suffix, "/")
       IN IF Len(yn) = 1
            THEN /\ pc' = "panicked"
                 /\ result' = Panic("Expected a '/' character separating a yes no question!")
                 /\ UNCHANGED <<win, cur, loc>>
            ELSE LET y == IF default THEN to_uppercase(yn[1]) ELSE yn[1]
                     n == IF default THEN yn[2] ELSE to_uppercase(yn[2])
                     ynl == set_content(Layer_new(raw_posx(Term0), raw_posy(Term0)),
                                        yn_format(y, n))
                     t == draw_layer(Term0, ynl)
                 IN /\ win' = t.win
                    /\ cur' = t.cur
                    /\ loc' = [ynl |-> ynl, y |-> y, n |-> n, ret |-> default]
                    /\ pc' = "yesno"
                    /\ result' = result
    /\ UNCHANGED <<layer_stack, overflow_checks, input, held>>

yesno_select_swapped(ret, i) ==
  IF i = Key("ArrowRight") THEN TRUE
  ELSE IF i = Key("ArrowLeft") THEN FALSE
  ELSE ret

\* the arms Key::ArrowRight and Key::ArrowLeft of the first match
yesno_select(ret, i) ==
  IF i = Key("ArrowRight") THEN FALSE
  ELSE IF i = Key("ArrowLeft") THEN TRUE
  ELSE ret

\* the second match: the selected side upper-cased, the other lower-cased
yesno_case(y, n, ret) ==
  IF ret THEN [y |-> to_uppercase(y), n |-> to_lowercase(n)]
  ELSE [y |-> to_lowercase(y), n |-> to_uppercase(n)]

\* one turn of yesno's loop
YesnoKey ==
  \E ev \in YesnoEvents :
    /\ pc = "yesno"
    /\ Len(input) < MaxKeys
    /\ input' = Append(input, ev)
    /\ LET g == get_char_hidden(Term0, ev)
           i == g.ret.some
       IN IF ~IsSome(g.ret) \/ i = Key("Enter")
            THEN /\ win' = g.t.win
                 /\ cur' = g.t.cur
                 /\ pc' = "returned"
                 /\ result' = Returned(loc.ret)
                 /\ loc' = loc
          ELSE IF i \in {Key("ArrowRight"), Key("ArrowLeft")}
            THEN LET ret == yesno_select(loc.ret, i)
                     c == yesno_case(loc.y, loc.n, ret)
                     ynl == set_content(loc.ynl, yn_format(c.y, c.n))
                     t == draw_layer(g.t, ynl)
                 IN /\ win' = t.win
                    /\ cur' = t.cur
                    /\ loc' = [ynl |-> ynl, y |-> c.y, n |-> c.n, ret |-> ret]
                    /\ UNCHANGED <<pc, result>>
          ELSE /\ win' = g.t.win
               /\ cur' = g.t.cur
               /\ UNCHANGED <<pc, result, loc>>
    /\ UNCHANGED <<layer_stack, overflow_checks, call, held>>

NextYesno == YesnoCall \/ YesnoKey

SpecYesno == InitYesno /\ [][NextYesno]_vars

\* The selection the keys make: the last ArrowLeft / ArrowRight decides, ArrowLeft
\* being yes; without any, the default stands
Selected(default, keys) ==
  LET arrows == SelectSeq(keys, LAMBDA k : k \in {Key("ArrowLeft"), Key("ArrowRight")})
  IN IF arrows = <<>> THEN default ELSE arrows[Len(arrows)] = Key("ArrowLeft")

\* C4: yesno returns the default when no ArrowLeft / ArrowRight comes before the
\* first Enter, and otherwise TRUE iff the last of them was ArrowLeft.
C4_YesnoReturnsSelection ==
  (call.op = "yesno" /\ pc = "returned") =>
    result = Returned(Selected(call.default, BeforeEnter(Keys(input))))

\* yesno("y/n", true) has returned false after ArrowLeft, a letter, ArrowRight, Enter
C4_Witness ==
  /\ call.op = "yesno" /\ pc = "returned"
  /\ call.default = TRUE
  /\ Keys(input) = <<Key("ArrowLeft"), Alpha("a"), Key("ArrowRight"), Key("Enter")>>
  /\ result = Returned(FALSE)

(***************************************************************************)
(* SpecChoices: Terminal::choices                                          *)
(***************************************************************************)
Items == <<<<"x">>, <<"y", "y">>, <<"z">>>>
StrLists == {SubSeq(Items, 1, k) : k \in 0..Len(Items)}
ChoicesPrefixes == {<<"-", ">">>}

\* the Layer of item i (0-based): prefixed when it is the selected one
choices_layer(l, prefix, selected) ==
  IF selected THEN set_content(l, prefix \o l.inner_content) ELSE inner_to_outer(l)

\* the first for loop: the Layers made and drawn, item by item
RECURSIVE choices_build(_, _, _, _)
choices_build(t, prefix, strs, layers) ==
  IF Len(layers) = Len(strs) THEN [t |-> t, layers |-> layers]
  ELSE LET i == Len(layers)
           l0 == [Layer_new(raw_posx(t), raw_posy(t) + i) EXCEPT !.inner_content = strs[i + 1]]
           l == choices_layer(l0, prefix, i = 0)
       IN choices_build(draw_layer_static(t, l), prefix, strs, Append(layers, l))

\* the for loop after a key: every Layer re-rendered and drawn, in order
RECURSIVE choices_redraw(_, _, _, _, _)
choices_redraw(t, prefix, layers, y, done) ==
  IF done = Len(layers) THEN [t |-> t, layers |-> layers]
  ELSE LET l == choices_layer(layers[done + 1], prefix, done = y)
       IN choices_redraw(draw_layer_static(t, l), prefix,
                         [layers EXCEPT ![done + 1] = l], y, done + 1)

InitChoices == InitAsk

\* choices, up to its first key read
ChoicesCall ==
  \E prefix \in ChoicesPrefixes, strs \in StrLists :
    /\ pc = "idle"
    /\ call' = [op |-> "choices", prefix |-> prefix, strs |-> strs]
    /\ LET b == choices_build(outbr(Term0, layer_stack), prefix, strs, <<>>)
           t == raw_move_offset(b.t, 0, Len(b.layers))
       IN /\ win' = t.win
          /\ cur' = t.cur
          /\ loc' = [layers |-> b.layers, y |-> 0]
    /\ pc' = "choices"
    /\ UNCHANGED <<layer_stack, overflow_checks, input, result, held>>

choices_down_wraps(y, len) == Returned(IF len = 0 THEN y ELSE (y + 1) % len)

\* the Key::ArrowDown arm: layers.len() - 1 overflows on an empty list, which
\* panics when overflow is checked and is usize::MAX otherwise
choices_down(y, len) ==
  IF len = 0
    THEN IF overflow_checks THEN Panic("attempt to subtract with overflow") ELSE Returned(y + 1)
    ELSE Returned(IF y < len - 1 THEN y + 1 ELSE y)

\* the Key::ArrowUp arm
choices_up(y) == IF y > 0 THEN y - 1 ELSE y

\* one turn of choices' loop
ChoicesKey ==
  \E ev \in ChoicesEvents :
    /\ pc = "choices"
    /\ Len(input) < MaxKeys
    /\ input' = Append(input, ev)
    /\ LET g == get_char_hidden(Term0, ev)
           i == g.ret.some
           len == Len(loc.layers)
       IN IF ~IsSome(g.ret) \/ i = Key("Enter")
            THEN /\ win' = g.t.win
                 /\ cur' = g.t.cur
                 /\ loc' = loc
                 /\ IF loc.y < len
                      THEN pc' = "returned" /\ result' = Returned(loc.layers[loc.y + 1].inner_content)
                      ELSE pc' = "panicked" /\ result' = Panic("index out of bounds")
          ELSE IF i \in {Key("ArrowDown"), Key("ArrowUp")}
            THEN LET y == IF i = Key("ArrowDown") THEN choices_down(loc.y, len)
                          ELSE Returned(choices_up(loc.y))
                 IN IF IsPanic(y)
                      THEN /\ win' = g.t.win
                           /\ cur' = g.t.cur
                           /\ loc' = loc
                           /\ pc' = "panicked"
                           /\ result' = y
                      ELSE LET d == choices_redraw(g.t, call.prefix, loc.layers, y.ret, 0)
                           IN /\ win' = d.t.win
                              /\ cur' = d.t.cur
                              /\ loc' = [layers |-> d.layers, y |-> y.ret]
                              /\ UNCHANGED <<pc, result>>
          ELSE /\ win' = g.t.win
               /\ cur' = g.t.cur
               /\ UNCHANGED <<pc, result, loc>>
    /\ UNCHANGED <<layer_stack, overflow_checks, call, held>>

NextChoices == ChoicesCall \/ ChoicesKey

SpecChoices == InitChoices /\ [][NextChoices]_vars

\* The selection the keys make among n items: ArrowDown adds one unless at the last
\* index, ArrowUp subtracts one unless at 0, any other key changes nothing
RECURSIVE Selection(_, _, _)
Selection(y, n, keys) ==
  IF keys = <<>> THEN y
  ELSE LET k == Head(keys)
       IN Selection(IF k = Key("ArrowDown") /\ y # n - 1 THEN y + 1
                    ELSE IF k = Key("ArrowUp") /\ y # 0 THEN y - 1
                    ELSE y,
                    n, Tail(keys))

\* C5: for a non-empty list the selection starts at 0, moves by the clamped arrow
\* rule, stays within 0..len-1, and choices returns the text of the selected item.
C5_ChoicesSelection ==
  (call.op = "choices" /\ call.strs # <<>> /\ pc \in {"choices", "returned"}) =>
    /\ loc.y \in 0..(Len(call.strs) - 1)
    /\ loc.y = Selection(0, Len(call.strs), BeforeEnter(Keys(input)))
    /\ pc = "returned" => result = Returned(call.strs[loc.y + 1])

\* choices over three items has returned the last one after ArrowDown three times
\* (the third clamped) and Enter
C5_Witness ==
  /\ call.op = "choices" /\ pc = "returned"
  /\ Len(call.strs) = 3
  /\ Keys(input) = <<Key("ArrowDown"), Key("ArrowDown"), Key("ArrowDown"), Key("Enter")>>
  /\ result = Returned(<<"z">>)

(***************************************************************************)
(* SpecLocate: locate_idx on a stack length and a relative index.          *)
(***************************************************************************)
InitLocate ==
  /\ Terminal_new
  /\ overflow_checks \in BOOLEAN
  /\ \E len \in 0..MaxN, l \in (-MaxRel)..MaxRel :
       call = [op |-> "locate_idx", len |-> len, l |-> l]
  /\ loc = NoValue
  /\ held = {}

LocateIdx ==
  /\ pc = "idle"
  /\ LET i == locate_idx(call.len, call.l)
     IN IF IsPanic(i)
          THEN pc' = "panicked" /\ result' = i
          ELSE pc' = "returned" /\ result' = Returned(i)
  /\ UNCHANGED <<win, cur, layer_stack, overflow_checks, call, input, loc, held>>

NextLocate == LocateIdx

SpecLocate == InitLocate /\ [][NextLocate]_vars

\* C6: locate_idx(n, l) is l when l > 0 and n - 1 + l when l <= 0 (a negative sum
\* being that i32 cast to usize); so for n >= 1, locate_idx(n, 0) = n - 1 and
\* locate_idx(n, -(n-1)) = 0, for n >= 2 locate_idx(n, 1) = 1, and every l with
\* -(n-1) <= l <= n-1 resolves to a slot in 0..n-1.
C6_LocateIdx ==
  (call.op = "locate_idx" /\ pc # "idle") =>
    LET n == call.len
        l == call.l
        v == result.ret
    IN /\ n >= 1 => pc = "returned"
       /\ pc = "returned" =>
            /\ l > 0 => v = [carry |-> 0, value |-> l]
            /\ (l <= 0 /\ n - 1 + l >= 0) => v = [carry |-> 0, value |-> n - 1 + l]
            /\ (l <= 0 /\ n - 1 + l < 0) => v = [carry |-> 1, value |-> n - 1 + l]
            /\ (n >= 1 /\ l = 0) => v = [carry |-> 0, value |-> n - 1]
            /\ (n >= 1 /\ l = -(n - 1)) => v = [carry |-> 0, value |-> 0]
            /\ (n >= 2 /\ l = 1) => v = [carry |-> 0, value |-> 1]
            /\ (n >= 1 /\ -(n - 1) <= l /\ l <= n - 1) =>
                 (v.carry = 0 /\ v.value \in 0..(n - 1))

\* locate_idx(3, -2) has returned 0, the bottom slot
C6_Witness ==
  /\ call.op = "locate_idx" /\ pc = "returned"
  /\ call.len = 3 /\ call.l = -2
  /\ result = Returned([carry |-> 0, value |-> 0])

(***************************************************************************)
(* SpecStack: the Terminal's layer stack.                                  *)
(***************************************************************************)
Content(str) == set_content(Layer_new(0, 0), str)

PanelA == Layer2D_new(0, 0, 2, 1, Content(<<"X">>))
Panels == {PanelA}
LooseLayers == {set_content(Layer_new(1, 1), <<"Z">>)}

Rels == (-MaxStack)..MaxStack

\* Vec::push / slice::swap (slots counted from 0)
push(stack, e) == Append(stack, e)
swap(stack, i, j) == [stack EXCEPT ![i + 1] = stack[j + 1], ![j + 1] = stack[i + 1]]

\* add_layer: the stack afterwards
add_layer(stack, layer) ==
  LET r2d == [Layer2D_new(layer.posx, layer.posy, 1, 1, layer)
                EXCEPT !.stack_loc = -Len(stack)]
  IN push(stack, r2d)

\* add_layer2d: the stack afterwards (the clone r gets the stack_loc, `layer` is pushed)
add_layer2d(stack, layer) ==
  LET r == [layer EXCEPT !.stack_loc = -Len(stack)]
  IN push(stack, layer)

layer_swap_with_top(stack, a, b) ==
  LET i == locate_idx(Len(stack), a)
      j == locate_idx(Len(stack), 0)
  IN IF IsPanic(i) THEN i
     ELSE IF IsPanic(j) THEN j
     ELSE IF ~InBounds(i, Len(stack)) \/ ~InBounds(j, Len(stack))
       THEN Panic("index out of bounds")
     ELSE Returned(swap(stack, i.value, j.value))

\* layer_swap: the stack afterwards, or the panic
layer_swap(stack, a, b) ==
  LET i == locate_idx(Len(stack), a)
      j == locate_idx(Len(stack), b)
  IN IF IsPanic(i) THEN i
     ELSE IF IsPanic(j) THEN j
     ELSE IF ~InBounds(i, Len(stack)) \/ ~InBounds(j, Len(stack))
       THEN Panic("index out of bounds")
     ELSE Returned(swap(stack, i.value, j.value))

\* layer_locate: the slot referred to with the Layer2D in it, or the panic
layer_locate(stack, l) ==
  LET i == locate_idx(Len(stack), l)
  IN IF IsPanic(i) THEN i
     ELSE IF ~InBounds(i, Len(stack)) THEN Panic("index out of bounds")
     ELSE Returned([slot |-> i.value, layer2d |-> stack[i.value + 1]])

layer_front(stack) ==
  IF stack = <<>> THEN Panic("called Option::unwrap() on a None value")
  ELSE Returned([slot |-> Len(stack) - 1, layer2d |-> stack[Len(stack)]])

layer_back(stack) ==
  IF stack = <<>> THEN Panic("called Option::unwrap() on a None value")
  ELSE Returned([slot |-> 0, layer2d |-> stack[1]])

InitStack ==
  /\ Terminal_new
  /\ overflow_checks \in BOOLEAN
  /\ call = [op |-> "Terminal::new"]
  /\ loc = NoValue
  /\ held = {}

AddLayer ==
  \E layer \in LooseLayers :
    /\ pc = "idle"
    /\ Len(layer_stack) < MaxStack
    /\ layer_stack' = add_layer(layer_stack, layer)
    /\ call' = [op |-> "add_layer", layer |-> layer]
    /\ result' = Returned([slot |-> Len(layer_stack), cell |-> 0])
    /\ UNCHANGED <<win, cur, overflow_checks, pc, input, loc, held>>

AddLayer2d ==
  \E layer \in Panels :
    /\ pc = "idle"
    /\ Len(layer_stack) < MaxStack
    /\ layer_stack' = add_layer2d(layer_stack, layer)
    /\ call' = [op |-> "add_layer2d"]
    /\ result' = Returned([slot |-> Len(layer_stack)])
    /\ UNCHANGED <<win, cur, overflow_checks, pc, input, loc, held>>

LayerSwap ==
  \E a \in Rels, b \in Rels :
    /\ pc = "idle"
    /\ call' = [op |-> "layer_swap", a |-> a, b |-> b]
    /\ LET s == layer_swap(layer_stack, a, b)
       IN IF IsPanic(s)
            THEN pc' = "panicked" /\ result' = s /\ layer_stack' = layer_stack
            ELSE pc' = pc /\ result' = NoValue /\ layer_stack' = s.ret
    /\ UNCHANGED <<win, cur, overflow_checks, input, loc, held>>

LayerLocate ==
  \E l \in Rels :
    /\ pc = "idle"
    /\ call' = [op |-> "layer_locate", l |-> l]
    /\ result' = layer_locate(layer_stack, l)
    /\ pc' = IF IsPanic(result') THEN "panicked" ELSE pc
    /\ UNCHANGED <<win, cur, layer_stack, overflow_checks, input, loc, held>>

LayerFront ==
  /\ pc = "idle"
  /\ call' = [op |-> "layer_front"]
  /\ result' = layer_front(layer_stack)
  /\ pc' = IF IsPanic(result') THEN "panicked" ELSE pc
  /\ UNCHANGED <<win, cur, layer_stack, overflow_checks, input, loc, held>>

LayerBack ==
  /\ pc = "idle"
  /\ call' = [op |-> "layer_back"]
  /\ result' = layer_back(layer_stack)
  /\ pc' = IF IsPanic(result') THEN "panicked" ELSE pc
  /\ UNCHANGED <<win, cur, layer_stack, overflow_checks, input, loc, held>>

NextStack ==
  \/ AddLayer
  \/ AddLayer2d
  \/ LayerSwap
  \/ LayerLocate
  \/ LayerFront
  \/ LayerBack

SpecStack == InitStack /\ [][NextStack]_vars

\* The slot a relative index names in a stack of n, and the indices that name one
RelSlot(n, l) == IF l > 0 THEN l ELSE n - 1 + l
InRange(n, l) == -(n - 1) <= l /\ l <= n - 1
OutOfRange(n, l) == l >= n \/ l < -(n - 1)

\* C7: layer_swap(a, b) with both indices in range exchanges exactly the slots the
\* two indices name and leaves every other slot and the size unchanged (so the
\* same swap twice restores the order); layer_front() is the last slot and
\* layer_back() the first.
C7_SwapExchanges ==
  /\ [](/\ (call.op = "layer_front" /\ pc = "idle") =>
             result = Returned([slot |-> Len(layer_stack) - 1,
                                layer2d |-> layer_stack[Len(layer_stack)]])
        /\ (call.op = "layer_back" /\ pc = "idle") =>
             result = Returned([slot |-> 0, layer2d |-> layer_stack[1]]))
  /\ [][LET n == Len(layer_stack)
        IN (call'.op = "layer_swap" /\ InRange(n, call'.a) /\ InRange(n, call'.b)) =>
             LET i == RelSlot(n, call'.a)
                 j == RelSlot(n, call'.b)
             IN /\ pc' = "idle"
                /\ Len(layer_stack') = n
                /\ \A k \in 0..(n - 1) :
                     layer_stack'[k + 1] = IF k = i THEN layer_stack[j + 1]
                                           ELSE IF k = j THEN layer_stack[i + 1]
                                           ELSE layer_stack[k + 1]]_vars

\* a panel was pushed, then a loose layer, and layer_swap(0, -1) has put the loose
\* layer at the back and the panel at the front
C7_Witness ==
  /\ call = [op |-> "layer_swap", a |-> 0, b |-> -1]
  /\ pc = "idle"
  /\ Len(layer_stack) = 2
  /\ layer_stack[1].stack_loc = -1
  /\ layer_stack[2] = PanelA

\* C8: on a stack of n >= 1, a relative index l >= n or l < -(n-1) makes
\* layer_locate and layer_swap fail with the stack left as it was.
C8_OutOfRangeFails ==
  [][LET n == Len(layer_stack)
     IN (/\ n >= 1
         /\ \/ call'.op = "layer_locate" /\ OutOfRange(n, call'.l)
            \/ call'.op = "layer_swap" /\ (OutOfRange(n, call'.a) \/ OutOfRange(n, call'.b)))
          => (pc' = "panicked" /\ IsPanic(result') /\ layer_stack' = layer_stack)]_vars

\* layer_swap has failed on an index one below the bottom of a stack of two or more
C8_Witness ==
  /\ pc = "panicked"
  /\ call.op = "layer_swap"
  /\ Len(layer_stack) >= 2
  /\ call.a = -Len(layer_stack)
  /\ InRange(Len(layer_stack), call.b)

(***************************************************************************)
(* SpecGrid: a Layer2D and its cell addressing.                            *)
(***************************************************************************)
Populators == {Content(<<"X">>), Content(<<"a", "b">>)}
Coords == 0..(MaxDim + 1)

InitGrid ==
  /\ Terminal_new
  /\ overflow_checks \in BOOLEAN
  /\ \E length \in 0..MaxDim, height \in 0..MaxDim, populator \in Populators :
       /\ call = [op |-> "Layer2D::new", populator |-> populator]
       /\ loc = [l2d |-> Layer2D_new(0, 0, length, height, populator)]
  /\ held = {}

GridPopulate ==
  \E populator \in Populators :
    /\ pc = "idle"
    /\ loc' = [l2d |-> populate(loc.l2d, populator)]
    /\ call' = [op |-> "populate", populator |-> populator]
    /\ result' = NoValue
    /\ UNCHANGED <<win, cur, layer_stack, overflow_checks, pc, input, held>>

GridIndex ==
  \E x \in Coords, y \in Coords :
    /\ pc = "idle"
    /\ call' = [op |-> "index", x |-> x, y |-> y]
    /\ LET r == index(loc.l2d, x, y)
       IN IF IsPanic(r) THEN pc' = "panicked" /\ result' = r
          ELSE pc' = pc /\ result' = Returned(r)
    /\ UNCHANGED <<win, cur, layer_stack, overflow_checks, input, loc, held>>

GridGet ==
  \E x \in Coords, y \in Coords :
    /\ pc = "idle"
    /\ call' = [op |-> "get", x |-> x, y |-> y]
    /\ LET r == get(loc.l2d, x, y)
       IN IF IsPanic(r) THEN pc' = "panicked" /\ result' = r
          ELSE pc' = pc /\ result' = Returned(r)
    /\ UNCHANGED <<win, cur, layer_stack, overflow_checks, input, loc, held>>

NextGrid == GridPopulate \/ GridIndex \/ GridGet

SpecGrid == InitGrid /\ [][NextGrid]_vars

\* C9: index(x, y) and get(x, y) return the cell at sequence index x + y*length
\* when 0 <= x < length and 0 <= y < height, and fail for every other coordinate.
C9_IndexChecksRange ==
  (call.op \in {"index", "get"}) =>
    IF call.x < loc.l2d.length /\ call.y < loc.l2d.height
      THEN /\ pc = "idle"
           /\ result = Returned([slot |-> call.x + call.y * loc.l2d.length,
                                 layer |-> loc.l2d.layers[call.x + call.y * loc.l2d.length + 1]])
      ELSE pc = "panicked"

\* C10: a key event get_char has no mapping for, arriving while a widget waits for
\* a key, leaves the widget waiting with its locals unchanged.
C10_UnmappedKeyIgnored ==
  [][(/\ pc \in {"ask", "mask", "yesno", "choices"}
      /\ Len(input') = Len(input) + 1
      /\ IsSome(input'[Len(input')])
      /\ ~IsSome(get_char(input'[Len(input')])))
       => (pc' = pc /\ loc' = loc)]_vars

(***************************************************************************)
(* SpecWidgets: one of the four widgets, called on a fresh Terminal.       *)
(***************************************************************************)
InitWidgets == InitAsk

NextWidgets ==
  \/ AskCall
  \/ AskKey
  \/ MaskCall
  \/ MaskKey
  \/ YesnoCall
  \/ YesnoKey
  \/ ChoicesCall
  \/ ChoicesKey

SpecWidgets == InitWidgets /\ [][NextWidgets]_vars

Widgets == {"ask", "mask", "yesno", "choices"}

\* the event the last key read delivered
LastEvent == input[Len(input)]

\* C11: when the key read yields None while a widget waits, the widget returns
\* without failure what it has accumulated: ask the typed string, mask the hidden
\* string, yesno the selection, choices (non-empty list) the selected item's text.
C11_NoneEndsLoop ==
  [][(/\ pc \in Widgets
      /\ Len(input') = Len(input) + 1
      /\ ~IsSome(input'[Len(input')])
      /\ pc = "choices" => call.strs # <<>>)
       => /\ pc' = "returned"
          /\ loc' = loc
          /\ result' = CASE pc = "ask" -> Returned(get_content(loc.r))
                         [] pc = "mask" -> Returned(loc.s)
                         [] pc = "yesno" -> Returned(loc.ret)
                         [] pc = "choices" -> Returned(call.strs[loc.y + 1])]_vars

\* mask has returned the one hidden character typed before the input ended
C11_Witness ==
  /\ call.op = "mask" /\ pc = "returned"
  /\ Len(input) = 2
  /\ ~IsSome(LastEvent)
  /\ result = Returned(<<"a">>)

HasSeparator(suffix) == \E i \in 1..Len(suffix) : suffix[i] = "/"

\* C12: yesno called with a suffix without '/' (the empty suffix included) fails at
\* once for either default: nothing is drawn, no key is read, no boolean returned.
C12_NoSeparatorPanics ==
  /\ [][(pc = "idle" /\ call'.op = "yesno" /\ ~HasSeparator(call'.suffix))
          => /\ pc' = "panicked"
             /\ IsPanic(result')
             /\ win' = win /\ cur' = cur /\ input' = input]_vars
  /\ []((call.op = "yesno" /\ ~HasSeparator(call.suffix))
          => (pc = "panicked" /\ input = <<>>))

\* yesno("yn", false) has panicked
C12_Witness ==
  /\ call = [op |-> "yesno", suffix |-> <<"y", "n">>, default |-> FALSE]
  /\ pc = "panicked"
  /\ IsPanic(result)

\* the Layer a widget commits: ask and mask r, yesno ynl, choices the selected row
CommittedLayer ==
  CASE call.op = "ask" -> loc.r
    [] call.op = "mask" -> loc.r
    [] call.op = "yesno" -> loc.ynl
    [] call.op = "choices" -> loc.layers[loc.y + 1]

EndedByEnter ==
  /\ input # <<>>
  /\ IsSome(get_char(LastEvent))
  /\ get_char(LastEvent).some = Key("Enter")

\* C13: when ask, mask, yesno or choices returns on Enter, the cursor is on the cell
\* right after the committed content of the widget's Layer: row posy, column
\* posx + len(content), also after a Backspace on empty content.
C13_CursorAfterContent ==
  (/\ call.op \in Widgets
   /\ pc = "returned"
   /\ EndedByEnter
   /\ call.op = "choices" => call.strs # <<>>)
    => cur = <<CommittedLayer.posx + Len(get_content(CommittedLayer)), CommittedLayer.posy>>

\* the same, for ask alone
C13_AskCursor ==
  (call.op = "ask" /\ pc = "returned" /\ EndedByEnter)
    => cur = <<loc.r.posx + Len(get_content(loc.r)), loc.r.posy>>

(***************************************************************************)
(* SpecScreen: one drawing, key-reading or deleting operation of the       *)
(* Terminal, applied to a window that earlier output has written on and    *)
(* with the cursor on any cell.  loc keeps the window and cursor the       *)
(* operation started from.                                                 *)
(***************************************************************************)
\* the loop of raw_delete_offset and raw_delete_to: move one cell towards the target
\* column and delete there, until the cursor is on the target.  When the move fails
\* (the window's edge) the cursor never reaches the target and the loop never ends,
\* deleting at the same cell for ever.
RECURSIVE delete_loop(_, _, _, _)
delete_loop(t, target, offs, steps) ==
  IF raw_posx(t) = target THEN [t |-> t, steps |-> steps, loops |-> FALSE]
  ELSE LET t1 == raw_move_offset(t, offs, 0)
       IN IF t1.cur = t.cur
            THEN [t |-> [t EXCEPT !.win[t.cur[2]] =
                                    [xx \in 0..(Cols - 1) |->
                                       IF xx < t.cur[1] THEN t.win[t.cur[2]][xx] ELSE Blank]],
                  steps |-> steps, loops |-> TRUE]
            ELSE delete_loop(raw_delete(t1), target, offs, steps + 1)

\* xoffs / xoffs.abs(): -1 or 1, and a panic for 0
raw_delete_offset(t, xoffs) ==
  IF xoffs = 0 THEN Panic("attempt to divide by zero")
  ELSE LET offs == IF xoffs > 0 THEN 1 ELSE -1
           here == raw_posx(t)
       IN delete_loop(t, here + xoffs, offs, 0)

raw_delete_to(t, x) ==
  LET offs == IF x > raw_posx(t) THEN 1 ELSE -1
  IN delete_loop(t, x, offs, 0)

\* a window earlier output has filled with one character
Filled(ch) == [yy \in 0..(Rows - 1) |-> [xx \in 0..(Cols - 1) |-> ch]]
Backgrounds == {EmptyWin, Filled("b")}
Cells == {<<x, y>> : x \in 0..(Cols - 1), y \in 0..(Rows - 1)}

\* the Layers drawn: on and off the window, with and without spare footprint
DrawnLayers ==
  {l \in [posx : 0..Cols, posy : {0, Rows - 1, Rows}, inner_content : {<<>>},
          content : StringsUpTo({"a"}, MaxLen), length : 0..MaxLen] :
     l.length >= Len(l.content)}

ScreenStacks == {<<>>, add_layer(add_layer2d(<<>>, PanelA), set_content(Layer_new(1, 1), <<"Z">>))}

InitScreen ==
  /\ win \in Backgrounds
  /\ cur \in Cells
  /\ layer_stack \in ScreenStacks
  /\ overflow_checks \in BOOLEAN
  /\ pc = "idle"
  /\ input = <<>>
  /\ result = NoValue
  /\ call = [op |-> "Terminal::new"]
  /\ loc = NoValue
  /\ held = {}

DrawLayer ==
  \E layer \in DrawnLayers :
    /\ pc = "idle"
    /\ LET t == draw_layer(Term0, layer)
       IN win' = t.win /\ cur' = t.cur
    /\ call' = [op |-> "draw_layer", layer |-> layer]
    /\ loc' = [win |-> win, cur |-> cur]
    /\ pc' = "done"
    /\ UNCHANGED <<layer_stack, overflow_checks, input, result, held>>

DrawLayerStatic ==
  \E layer \in DrawnLayers :
    /\ pc = "idle"
    /\ LET t == draw_layer_static(Term0, layer)
       IN win' = t.win /\ cur' = t.cur
    /\ call' = [op |-> "draw_layer_static", layer |-> layer]
    /\ loc' = [win |-> win, cur |-> cur]
    /\ pc' = "done"
    /\ UNCHANGED <<layer_stack, overflow_checks, input, result, held>>

Refresh ==
  /\ pc = "idle"
  /\ LET t == refresh(Term0, layer_stack)
     IN win' = t.win /\ cur' = t.cur
  /\ call' = [op |-> "refresh"]
  /\ loc' = [win |-> win, cur |-> cur]
  /\ pc' = "done"
  /\ UNCHANGED <<layer_stack, overflow_checks, input, result, held>>

GetCharHidden ==
  \E ev \in TextEvents :
    /\ pc = "idle"
    /\ LET g == get_char_hidden(Term0, ev)
       IN win' = g.t.win /\ cur' = g.t.cur /\ result' = Returned(g.ret)
    /\ input' = Append(input, ev)
    /\ call' = [op |-> "get_char_hidden"]
    /\ loc' = [win |-> win, cur |-> cur]
    /\ pc' = "done"
    /\ UNCHANGED <<layer_stack, overflow_checks, held>>

\* the end of a deleting operation: returned, panicked or never returning
Deleted(r) ==
  IF IsPanic(r)
    THEN pc' = "panicked" /\ result' = r /\ UNCHANGED <<win, cur>>
    ELSE /\ win' = r.t.win
         /\ cur' = r.t.cur
         /\ result' = Returned([steps |-> r.steps])
         /\ pc' = IF r.loops THEN "looping" ELSE "done"

RawDeleteTo ==
  \E x \in (-1)..Cols :
    /\ pc = "idle"
    /\ Deleted(raw_delete_to(Term0, x))
    /\ call' = [op |-> "raw_delete_to", x |-> x]
    /\ loc' = [win |-> win, cur |-> cur]
    /\ UNCHANGED <<layer_stack, overflow_checks, input, held>>

RawDeleteOffset ==
  \E xoffs \in (-Cols)..Cols :
    /\ pc = "idle"
    /\ Deleted(raw_delete_offset(Term0, xoffs))
    /\ call' = [op |-> "raw_delete_offset", xoffs |-> xoffs]
    /\ loc' = [win |-> win, cur |-> cur]
    /\ UNCHANGED <<layer_stack, overflow_checks, input, held>>

NextScreen ==
  \/ DrawLayer
  \/ DrawLayerStatic
  \/ Refresh
  \/ GetCharHidden
  \/ RawDeleteTo
  \/ RawDeleteOffset

SpecScreen == InitScreen /\ [][NextScreen]_vars

\* What draw_layer(L) is to leave: the cells of row L.posy from column L.posx to
\* L.posx + length - 1 show the content and then blanks, the cursor is just after
\* the content, and drawing L once more changes neither window nor cursor.
ShowsLayer(L) ==
  /\ \A k \in 0..(L.length - 1) :
       (L.posx + k \in 0..(Cols - 1) /\ L.posy \in 0..(Rows - 1)) =>
         win[L.posy][L.posx + k] = IF k < Len(L.content) THEN L.content[k + 1] ELSE Blank
  /\ cur = <<L.posx + Len(L.content), L.posy>>
  /\ LET again == draw_layer(Term0, L)
     IN again.win = win /\ again.cur = cur

\* The footprint of L, and the cell just after its content, are cells of the window
InsideWindow(L) ==
  /\ L.posx >= 0
  /\ L.posy \in 0..(Rows - 1)
  /\ L.posx + L.length <= Cols
  /\ L.posx + Len(L.content) < Cols

\* C14 as stated: after draw_layer(L), whatever the window showed and wherever L
\* is, the footprint shows the content followed by blanks, the cursor is just after
\* the content, and a second draw_layer(L) leaves the same window and cursor.
C14_DrawDependsOnLayerOnly ==
  call.op = "draw_layer" => ShowsLayer(call.layer)

\* C14, amended: the same for a Layer whose footprint and the cell just after its
\* content lie inside the window.
C14_DrawInsideWindow ==
  (call.op = "draw_layer" /\ InsideWindow(call.layer)) => ShowsLayer(call.layer)

\* a Layer with one character and one spare cell was drawn over a filled window,
\* the cursor having been elsewhere
C14_Witness ==
  /\ call.op = "draw_layer" /\ pc = "done"
  /\ InsideWindow(call.layer)
  /\ loc.win = Filled("b")
  /\ call.layer.content = <<"a">> /\ call.layer.length = 2
  /\ call.layer.posx = 1
  /\ loc.cur = <<0, 0>> /\ cur # loc.cur

(***************************************************************************)
(* SpecPaint: panels and layers pushed on the stack, swapped and painted   *)
(* by refresh.                                                             *)
(***************************************************************************)
PanelB == Layer2D_new(0, 0, 1, 2, Content(<<"Y">>))

AddPanelB ==
  /\ pc = "idle"
  /\ Len(layer_stack) < MaxStack
  /\ layer_stack' = add_layer2d(layer_stack, PanelB)
  /\ call' = [op |-> "add_layer2d"]
  /\ result' = Returned([slot |-> Len(layer_stack)])
  /\ UNCHANGED <<win, cur, overflow_checks, pc, input, loc, held>>

RefreshStack ==
  /\ pc = "idle"
  /\ LET t == refresh(Term0, layer_stack)
     IN win' = t.win /\ cur' = t.cur
  /\ call' = [op |-> "refresh"]
  /\ result' = NoValue
  /\ UNCHANGED <<layer_stack, overflow_checks, pc, input, loc, held>>

\* layer_swap(0, b): the top panel exchanged with another (or with none: a panic)
SwapTop ==
  \E b \in (-MaxStack)..0 :
    /\ pc = "idle"
    /\ call' = [op |-> "layer_swap", a |-> 0, b |-> b]
    /\ LET s == layer_swap(layer_stack, 0, b)
       IN IF IsPanic(s)
            THEN pc' = "panicked" /\ result' = s /\ layer_stack' = layer_stack
            ELSE pc' = pc /\ result' = NoValue /\ layer_stack' = s.ret
    /\ UNCHANGED <<win, cur, overflow_checks, input, loc, held>>

NextPaint ==
  \/ AddLayer
  \/ AddLayer2d
  \/ AddPanelB
  \/ SwapTop
  \/ RefreshStack

SpecPaint == InitStack /\ [][NextPaint]_vars

\* Layer l covers the window cell p: p is in l's row, within l's footprint or content
LayerCovers(l, p) ==
  /\ p[2] = l.posy
  /\ p[1] >= l.posx
  /\ p[1] < l.posx + (IF l.length > Len(l.content) THEN l.length ELSE Len(l.content))

\* what l shows at a cell it covers
LayerShows(l, p) ==
  IF p[1] - l.posx < Len(l.content) THEN l.content[p[1] - l.posx + 1] ELSE Blank

PanelCovers(l2d, p) == \E i \in 1..Len(l2d.layers) : LayerCovers(l2d.layers[i], p)

\* what a panel shows at a cell it covers: its last cell Layer covering it
PanelShows(l2d, p) ==
  LET i == SetMax({k \in 1..Len(l2d.layers) : LayerCovers(l2d.layers[k], p)})
  IN LayerShows(l2d.layers[i], p)

\* C15: after refresh, every window cell covered by one or more Layer2D of the
\* stack shows what the one latest in the stack order paints there.
C15_RefreshPaintsInStackOrder ==
  call.op = "refresh" =>
    \A p \in Cells :
      LET over == {k \in 1..Len(layer_stack) : PanelCovers(layer_stack[k], p)}
      IN over # {} => win[p[2]][p[1]] = PanelShows(layer_stack[SetMax(over)], p)

\* panel A was pushed, then a Layer (its stack_loc says so); layer_swap put A in
\* front, and the refresh after it shows A's character on the cell both cover
C15_Witness ==
  /\ call.op = "refresh"
  /\ Len(layer_stack) = 2
  /\ layer_stack[1].stack_loc = -1 /\ layer_stack[1].layers[1].content = <<"Z">>
  /\ layer_stack[2] = PanelA
  /\ win[0][0] = "X"

\* C16: after Layer2D::new or populate with a populator whose content is w wide, the
\* grid holds length * height cells, each with the populator's content, cell i at
\* posx = (i mod length) * w and posy = floor(i / length); w is recomputed.
C16_PopulateLaysOutGrid ==
  (call.op \in {"Layer2D::new", "populate"}) =>
    LET g == loc.l2d
        w == Len(call.populator.content)
    IN /\ Len(g.layers) = g.length * g.height
       /\ g.char_count = w
       /\ \A i \in 0..(g.length * g.height - 1) :
            /\ g.layers[i + 1].content = call.populator.content
            /\ g.layers[i + 1].posx = (i % g.length) * w
            /\ g.layers[i + 1].posy = i \div g.length

\* a grid of 3 columns and 2 rows of "X" was re-populated with the two-character
\* populator: cell 4 is at posx 2, posy 1
C16_Witness ==
  /\ call.op = "populate"
  /\ call.populator.content = <<"a", "b">>
  /\ loc.l2d.length = 3 /\ loc.l2d.height = 2
  /\ Len(loc.l2d.layers) = 6
  /\ loc.l2d.layers[5].posx = 2 /\ loc.l2d.layers[5].posy = 1

\* C17: draw_layer_static(L), refresh() and a hidden key read (for every key, an
\* Alpha key whose echo is deleted included) leave the cursor on the cell it was on.
C17_CursorPreserved ==
  (call.op \in {"draw_layer_static", "refresh", "get_char_hidden"}) => cur = loc.cur

\* a character key was read hidden with the cursor on the last cell of a row: the
\* echo wrapped to the next row, and the cursor is back where it was
C17_Witness ==
  /\ call.op = "get_char_hidden"
  /\ result = Returned(Some(Alpha("a")))
  /\ loc.cur = <<Cols - 1, 1>>
  /\ cur = loc.cur

\* the column a deleting operation is to reach
DeleteTarget ==
  IF call.op = "raw_delete_to" THEN call.x ELSE loc.cur[1] + call.xoffs

Abs(v) == IF v >= 0 THEN v ELSE -v

\* C18: for every target column on the screen, raw_delete_to(x) and
\* raw_delete_offset(k) end with the cursor on the target column after exactly
\* |target - start| move-then-delete steps; with the target on the start column
\* (x the current column, k = 0) they do nothing, and neither loop nor fail.
C18_DeleteReachesTarget ==
  (/\ call.op \in {"raw_delete_to", "raw_delete_offset"}
   /\ DeleteTarget \in 0..(Cols - 1))
    => /\ pc = "done"
       /\ cur = <<DeleteTarget, loc.cur[2]>>
       /\ result = Returned([steps |-> Abs(DeleteTarget - loc.cur[1])])
       /\ DeleteTarget = loc.cur[1] => win = loc.win

\* C19: whenever yesno waits for a key (before the first key too), its Layer shows
\* "(" yes "/" no ")" with the selected side upper-cased and the other side
\* lower-cased, whatever the case of the suffix's parts and for either default.
C19_SelectedSideUpperCased ==
  (call.op = "yesno" /\ pc = "yesno") =>
    LET yn == split(call.suffix, "/")
        yes == IF loc.ret THEN to_uppercase(yn[1]) ELSE to_lowercase(yn[1])
        no == IF loc.ret THEN to_lowercase(yn[2]) ELSE to_uppercase(yn[2])
    IN get_content(loc.ynl) = yn_format(yes, no)

\* C20: the Layer add_layer stores and returns has the posx and posy it was created
\* with, and a following refresh paints its content starting at that cell.
C20_AddLayerKeepsPosition ==
  call.op = "add_layer" =>
    LET stored == layer_stack[result.ret.slot + 1].layers[result.ret.cell + 1]
        painted == refresh(Term0, layer_stack)
    IN /\ stored.posx = call.layer.posx
       /\ stored.posy = call.layer.posy
       /\ \A k \in 1..Len(get_content(call.layer)) :
            painted.win[call.layer.posy][call.layer.posx + k - 1] = get_content(call.layer)[k]

\* C21: every push made while the stack holds k elements, through add_layer or
\* add_layer2d, stores a Layer2D with stack_loc = -k.
C21_StackLocIsPushDepth ==
  (call.op \in {"add_layer", "add_layer2d"}) =>
    layer_stack[result.ret.slot + 1].stack_loc = -result.ret.slot

(***************************************************************************)
(* mask as a function of the events it is fed: the run of mask over a      *)
(* whole event sequence, for comparing the display of two runs.            *)
(***************************************************************************)
\* mask, up to its first key read, on a fresh Terminal
mask_start(prefix) ==
  LET t == out(Term(EmptyWin, <<0, 0>>), <<>>, prefix)
  IN [t |-> t, r |-> Layer_new(raw_posx(t), raw_posy(t)), s |-> <<>>, done |-> FALSE]

\* one turn of mask's loop on event ev
mask_turn(m, ev, mask) ==
  IF m.done THEN m
  ELSE LET g == get_char_hidden(m.t, ev)
           i == g.ret.some
       IN IF ~IsSome(g.ret) \/ i = Key("Enter")
            THEN [t |-> g.t, r |-> m.r, s |-> m.s, done |-> TRUE]
          ELSE IF i = Key("Backspace")
            THEN LET b == mask_backspace(g.t, m.r, m.s)
                 IN [t |-> b.t, r |-> b.r, s |-> b.s, done |-> FALSE]
          ELSE IF IsAlpha(i)
            THEN LET a == mask_alpha(g.t, m.r, m.s, i.c, mask)
                 IN [t |-> a.t, r |-> a.r, s |-> a.s, done |-> FALSE]
          ELSE [t |-> g.t, r |-> m.r, s |-> m.s, done |-> FALSE]

RECURSIVE mask_run(_, _, _)
mask_run(m, evs, mask) ==
  IF evs = <<>> THEN m
  ELSE mask_run(mask_turn(m, Head(evs), mask), Tail(evs), mask)

\* the event sequence of the same shape whose typed characters are all "a"
SameShape(evs) ==
  [k \in 1..Len(evs) |->
     IF IsSome(evs[k]) /\ IsCharacter(evs[k].some) /\ evs[k].some.character \in TypedChars
       THEN Some(Character("a"))
       ELSE evs[k]]

\* the model's mask action and the run over the events agree
MaskRunIsMask ==
  (call.op = "mask" /\ pc \in {"mask", "returned"}) =>
    LET m == mask_run(mask_start(call.prefix), input, call.mask)
    IN m.t.win = win /\ m.t.cur = cur /\ m.r = loc.r /\ m.s = loc.s

\* C22: two runs of mask over key sequences of the same shape, differing only in
\* the characters typed, show the same window and cursor wherever mask waits for
\* a key and when it returns.  Every run is compared with the run of its shape
\* that types only "a": two runs of one shape then agree with each other.
C22_DisplayHidesCharacters ==
  (call.op = "mask" /\ pc \in {"mask", "returned"}) =>
    LET m == mask_run(mask_start(call.prefix), SameShape(input), call.mask)
    IN m.t.win = win /\ m.t.cur = cur
====
